---- MODULE Spec2Model ----
(***************************************************************************)
(* Model of playscore_to_musicxml.py: the MusicXML root-element test, the  *)
(* single-file converter (process_single_file) and the merge engine        *)
(* (merge_files), together with the part of the file system they touch:    *)
(* the input archives, the output file and the scratch files; and of the   *)
(* upload service of app.py: the /convert handler, its after-request hook  *)
(* and the background thread that removes a scratch directory.             *)
(***************************************************************************)
EXTENDS Integers, Sequences, FiniteSets, TLC

VARIABLES
    files,      \* path -> archive found at that path (the input files)
    out,        \* content of the output path
    tmpFiles,   \* suffixes of the scratch files that exist in the temp directory
    last,       \* record of the last call that ended: arguments and outcome
    probe,      \* byte string handed to is_musicxml_bytes
    verdict,    \* what is_musicxml_bytes answered for probe
    app         \* the upload service: one /convert request and its scratch directory

vars == <<files, out, tmpFiles, last, probe, verdict, app>>

(***************************************************************************)
(* Bounds of the model.                                                    *)
(***************************************************************************)
MaxEntries == 2     \* entries of an input archive
MaxInputs == 3      \* input paths of one run

(***************************************************************************)
(* Text.  A string is a sequence of one-character strings, so that lower() *)
(* and endswith() and split() are computed, not assumed.                   *)
(***************************************************************************)
LowerOf ==
    ("B" :> "b") @@ ("C" :> "c") @@ ("E" :> "e") @@ ("F" :> "f") @@
    ("L" :> "l") @@ ("M" :> "m") @@ ("O" :> "o") @@ ("P" :> "p") @@
    ("R" :> "r") @@ ("S" :> "s") @@ ("X" :> "x")

LowerChar(c) == IF c \in DOMAIN LowerOf THEN LowerOf[c] ELSE c

\* str.lower()
Lower(s) == [i \in 1..Len(s) |-> LowerChar(s[i])]

\* str.endswith(suffix)
EndsWith(s, suffix) ==
    /\ Len(s) >= Len(suffix)
    /\ SubSeq(s, Len(s) - Len(suffix) + 1, Len(s)) = suffix

\* c in s
Contains(s, c) == \E i \in 1..Len(s) : s[i] = c

\* s.split(c, 1)[1], for s that contains c: what follows the first c
AfterFirst(s, c) ==
    LET k == CHOOSE i \in 1..Len(s) :
                 s[i] = c /\ \A j \in 1..(i - 1) : s[j] # c
    IN  SubSeq(s, k + 1, Len(s))

ScorePartwise == <<"s","c","o","r","e","-","p","a","r","t","w","i","s","e">>
ScoreTimewise == <<"s","c","o","r","e","-","t","i","m","e","w","i","s","e">>
Score == <<"s","c","o","r","e">>

\* the tuple of accepted root tags in is_musicxml_bytes
MusicXmlRoots == {ScorePartwise, ScoreTimewise, Score}

DotXml == <<".","x","m","l">>
DocXml == <<"d","o","c",".","x","m","l">>
DocMid == <<"d","o","c",".","m","i","d">>
AXml == <<"a",".","x","m","l">>
BXmlUpper == <<"B",".","X","M","L">>
NTxt == <<"n",".","t","x","t">>

(***************************************************************************)
(* Byte strings.  A byte string is described by what an XML parser and the *)
(* music21 converter can tell about it:                                    *)
(*   enc    the encoding the bytes are written in                          *)
(*   wf     the bytes are a well-formed XML document in that encoding      *)
(*   ns     namespace URI of the root element (<<>>: none)                 *)
(*   local  local name of the root element                                 *)
(*   parses suffixes under which music21's converter.parse accepts them    *)
(*   nparts parts of the stream music21 builds (-1: a stream that has no   *)
(*          'parts' attribute)                                             *)
(***************************************************************************)
Suffixes == {".mid", ".musicxml"}

NoBytes ==
    [enc |-> "utf-8", wf |-> FALSE, ns |-> <<>>, local |-> <<>>,
     parses |-> {}, nparts |-> 0]

\* bytes.decode('utf-8', errors='replace'): text of a UTF-8 document is the
\* document; bytes in another encoding decode to replacement characters and
\* NULs, which are no XML.
DecodeUtf8Replace(b) ==
    [wf |-> b.wf /\ b.enc = "utf-8", ns |-> b.ns, local |-> b.local]

\* ET.fromstring(text): ParseError on text that is not well-formed, else the
\* root element, whose tag is "{uri}local" for a namespaced root.
FromString(text) ==
    IF text.wf
    THEN [ok |-> TRUE,
          tag |-> IF text.ns # <<>>
                  THEN <<"{">> \o text.ns \o <<"}">> \o text.local
                  ELSE text.local]
    ELSE [ok |-> FALSE, tag |-> <<>>]

StripNamespace(tag) == IF Contains(tag, "}") THEN AfterFirst(tag, "}") ELSE tag

is_musicxml_bytes(b) ==
    LET root == FromString(DecodeUtf8Replace(b))
    IN  IF ~root.ok
        THEN FALSE
        ELSE Lower(StripNamespace(root.tag)) \in MusicXmlRoots

(***************************************************************************)
(* music21.  converter.parse(file) raises unless the bytes are of the      *)
(* format the file's suffix announces; a parsed stream is known by the     *)
(* input it came from (src) and its parts <<src, 1>>, <<src, 2>>, ...      *)
(* The stream itself, appended to another stream, is the element           *)
(* <<src, 0>>.                                                             *)
(***************************************************************************)
NoScore == [src |-> 0, hasParts |-> FALSE, parts |-> <<>>]

ConverterParse(b, suffix, src) ==
    IF suffix \in b.parses
    THEN [ok |-> TRUE,
          score |-> [src |-> src,
                     hasParts |-> b.nparts >= 0,
                     parts |-> [k \in 1..b.nparts |-> <<src, k>>]]]
    ELSE [ok |-> FALSE, score |-> NoScore]

(***************************************************************************)
(* Files.  The content of a path is absent, raw bytes written verbatim,    *)
(* the MusicXML music21 serialised from a stream with the given elements,  *)
(* or what a write that failed half-way left behind.                       *)
(***************************************************************************)
NoFile == [kind |-> "absent", bytes |-> NoBytes, elems |-> <<>>]
Raw(b) == [kind |-> "raw", bytes |-> b, elems |-> <<>>]
Written(elems) == [kind |-> "musicxml", bytes |-> NoBytes, elems |-> elems]
Partial == [kind |-> "partial", bytes |-> NoBytes, elems |-> <<>>]

\* os.path.exists(out)
Exists(f) == f.kind # "absent"

(***************************************************************************)
(* What the environment does to one call: nothing, or one fault.  The      *)
(* import of music21 fails; the write of a scratch file fails; the removal *)
(* of a scratch file fails; the write of the output file fails before the  *)
(* file is opened, or after it was opened and truncated.                   *)
(***************************************************************************)
Faults ==
    {"none", "no_music21", "tmp_write", "unlink", "write_early",
     "write_partial"}

\* try: from music21 import converter / except Exception
Music21Imports(env) == env # "no_music21"

\* write_bytes: open(path, 'wb') and f.write(b); an OSError is not caught
write_bytes(o, b, env) ==
    CASE env = "write_early" -> [exc |-> "OSError", out |-> o]
      [] env = "write_partial" -> [exc |-> "OSError", out |-> Partial]
      [] OTHER -> [exc |-> "", out |-> Raw(b)]

\* stream.write('musicxml', fp=out_path)
StreamWrite(o, elems, env) ==
    CASE env = "write_early" -> [exc |-> "OSError", out |-> o]
      [] env = "write_partial" -> [exc |-> "OSError", out |-> Partial]
      [] OTHER -> [exc |-> "", out |-> Written(elems)]

\* try: os.unlink(name) / except Exception: pass -- the scratch files left
Unlink(suffix, env) == IF env = "unlink" THEN {suffix} ELSE {}

(***************************************************************************)
(* Archives.  A path holds no file, a file that is no ZIP, or a ZIP with   *)
(* its entries in archive order.                                           *)
(***************************************************************************)
Missing == [kind |-> "missing", entries |-> <<>>]
BadZip == [kind |-> "badzip", entries |-> <<>>]
Zip(entries) == [kind |-> "zip", entries |-> entries]

\* z.namelist()
NameList(z) == [i \in 1..Len(z.entries) |-> z.entries[i].name]

\* name in names
InNames(n, names) == \E i \in 1..Len(names) : names[i] = n

\* z.read(name): the entry of that name (the last one, were there several)
ZRead(z, n) ==
    LET k == CHOOSE i \in 1..Len(z.entries) :
                 /\ z.entries[i].name = n
                 /\ \A j \in (i + 1)..Len(z.entries) : z.entries[j].name # n
    IN  z.entries[k].data

\* for name in names: if name.lower().endswith('.xml') and
\* is_musicxml_bytes(z.read(name)) -- the positions that pass
XmlHits(z) ==
    {i \in 1..Len(z.entries) :
        /\ EndsWith(Lower(NameList(z)[i]), DotXml)
        /\ is_musicxml_bytes(ZRead(z, NameList(z)[i]))}

FirstOf(S) == CHOOSE i \in S : \A j \in S : i <= j

(***************************************************************************)
(* Results of a call: the code returned (rc; -1 when the call ended by an  *)
(* exception, named in exc), the output path's content and the scratch     *)
(* files the call created and left.                                        *)
(***************************************************************************)
Ret(rc, o, left) == [rc |-> rc, exc |-> "", out |-> o, left |-> left]
Raise(e, o, left) == [rc |-> -1, exc |-> e, out |-> o, left |-> left]

\* write_bytes(out, b) followed by return 0
WriteAndReturn(o, b, env) ==
    LET w == write_bytes(o, b, env)
    IN  IF w.exc # "" THEN Raise(w.exc, w.out, {}) ELSE Ret(0, w.out, {})

convert_mid_to_musicxml(mid_bytes, o, src, env) ==
    IF ~Music21Imports(env)
    THEN [ok |-> FALSE, exc |-> "", out |-> o, left |-> {}]
    ELSE IF env = "tmp_write"
    THEN \* tf.write raises inside the with block: the file stays (delete=False)
         [ok |-> FALSE, exc |-> "OSError", out |-> o, left |-> {".mid"}]
    ELSE LET p == ConverterParse(mid_bytes, ".mid", src)
             w == StreamWrite(o, p.score.parts, env)
         IN  IF ~p.ok
             THEN [ok |-> FALSE, exc |-> "", out |-> o,
                   left |-> Unlink(".mid", env)]
             ELSE [ok |-> w.exc = "", exc |-> "", out |-> w.out,
                   left |-> Unlink(".mid", env)]

\* the overwrite check left out
OutputSkippedNever(o, overwrite) == FALSE

\* if os.path.exists(out) and not overwrite: return 0
OutputSkipped(o, overwrite) == Exists(o) /\ ~overwrite

process_single_file(inp, o, overwrite, src, env) ==
    IF inp.kind = "missing" THEN Ret(2, o, {})
    ELSE IF OutputSkipped(o, overwrite) THEN Ret(0, o, {})
    ELSE IF inp.kind = "badzip" THEN Ret(2, o, {})
    ELSE LET names == NameList(inp)
             hits == XmlHits(inp)
         IN  IF InNames(DocXml, names) /\ is_musicxml_bytes(ZRead(inp, DocXml))
             THEN WriteAndReturn(o, ZRead(inp, DocXml), env)
             ELSE IF InNames(DocMid, names)
             THEN LET c == convert_mid_to_musicxml(ZRead(inp, DocMid), o, src, env)
                  IN  IF c.exc # "" THEN Raise(c.exc, c.out, c.left)
                      ELSE IF c.ok THEN Ret(0, c.out, c.left)
                      ELSE Ret(3, c.out, c.left)
             ELSE IF hits # {}
             THEN WriteAndReturn(o, ZRead(inp, names[FirstOf(hits)]), env)
             ELSE Ret(4, o, {})

\* tf = NamedTemporaryFile(delete=False, suffix=...); tf.write(b); tf.close()
\* try: return converter.parse(tf.name) / finally: unlink, errors swallowed
ScratchParse(b, suffix, src, env) ==
    IF env = "tmp_write"
    THEN [res |-> "raise", exc |-> "OSError", score |-> NoScore,
          left |-> {suffix}]
    ELSE LET p == ConverterParse(b, suffix, src)
         IN  IF p.ok
             THEN [res |-> "score", exc |-> "", score |-> p.score,
                   left |-> Unlink(suffix, env)]
             ELSE [res |-> "raise", exc |-> "ConverterException",
                   score |-> NoScore, left |-> Unlink(suffix, env)]

ReturnNone == [res |-> "none", exc |-> "", score |-> NoScore, left |-> {}]

parse_playscore_to_score(a, src, env) ==
    IF ~Music21Imports(env) THEN ReturnNone
    ELSE IF a.kind = "missing"
    THEN [res |-> "raise", exc |-> "FileNotFoundError", score |-> NoScore,
          left |-> {}]
    ELSE IF a.kind = "badzip" THEN ReturnNone
    ELSE LET names == NameList(a)
             hits == XmlHits(a)
         IN  IF InNames(DocXml, names) /\ is_musicxml_bytes(ZRead(a, DocXml))
             THEN ScratchParse(ZRead(a, DocXml), ".musicxml", src, env)
             ELSE IF InNames(DocMid, names)
             THEN ScratchParse(ZRead(a, DocMid), ".mid", src, env)
             ELSE IF hits # {}
             THEN ScratchParse(ZRead(a, names[FirstOf(hits)]), ".musicxml",
                               src, env)
             ELSE ReturnNone

\* for f in inputs: s = parse_playscore_to_score(f); if s is not None:
\* parsed_scores.append((f, s)) -- up to the first exception, if any
RECURSIVE ParseInputs(_, _, _, _)
ParseInputs(inputs, i, env, acc) ==
    IF i > Len(inputs)
    THEN acc
    ELSE LET r == parse_playscore_to_score(files[inputs[i]], inputs[i], env)
             nxt == [parsed |-> IF r.res = "score"
                                THEN Append(acc.parsed, r.score)
                                ELSE acc.parsed,
                     left |-> acc.left \cup r.left,
                     exc |-> r.exc,
                     processed |-> i]
         IN  IF r.exc # "" THEN nxt ELSE ParseInputs(inputs, i + 1, env, nxt)

\* what one parsed score appends to the combined score
Appended(s) ==
    IF s.hasParts /\ Len(s.parts) > 0 THEN s.parts ELSE <<<<s.src, 0>>>>

RECURSIVE CombineFrom(_, _)
CombineFrom(parsed, i) ==
    IF i > Len(parsed)
    THEN <<>>
    ELSE Appended(parsed[i]) \o CombineFrom(parsed, i + 1)

\* each score's elements put in front of the combined score, not behind
RECURSIVE CombineFront(_)
CombineFront(parsed) ==
    IF parsed = <<>>
    THEN <<>>
    ELSE CombineFront(Tail(parsed)) \o Appended(Head(parsed))

\* combined = stream.Score(); for fname, s in parsed_scores: ...
CombineParts(parsed) == CombineFrom(parsed, 1)

MergeRet(rc, e, o, acc, built, combined) ==
    [rc |-> rc, exc |-> e, out |-> o, left |-> acc.left,
     processed |-> acc.processed, built |-> built, combined |-> combined]

NoneParsed == [parsed |-> <<>>, left |-> {}, exc |-> "", processed |-> 0]

merge_files(inputs, o, overwrite, env) ==
    IF OutputSkipped(o, overwrite)
    THEN MergeRet(0, "", o, NoneParsed, FALSE, <<>>)
    ELSE IF ~Music21Imports(env)
    THEN MergeRet(3, "", o, NoneParsed, FALSE, <<>>)
    ELSE LET acc == ParseInputs(inputs, 1, env, NoneParsed)
             combined == CombineParts(acc.parsed)
             w == StreamWrite(o, combined, env)
         IN  IF acc.exc # ""
             THEN MergeRet(-1, acc.exc, o, acc, FALSE, <<>>)
             ELSE IF acc.parsed = <<>>
             THEN MergeRet(4, "", o, acc, FALSE, <<>>)
             ELSE IF w.exc = ""
             THEN MergeRet(0, "", w.out, acc, TRUE, combined)
             ELSE MergeRet(5, "", w.out, acc, TRUE, combined)

(***************************************************************************)
(* The inputs of the model.                                                *)
(***************************************************************************)
Paths == 1..MaxInputs

\* <score-partwise xmlns="u"> with two parts
XmlA ==
    [enc |-> "utf-8", wf |-> TRUE, ns |-> <<"u">>, local |-> ScorePartwise,
     parses |-> {".musicxml"}, nparts |-> 2]
\* <SCORE>, which music21 reads as a stream without parts
XmlB ==
    [enc |-> "utf-8", wf |-> TRUE, ns |-> <<>>,
     local |-> <<"S","C","O","R","E">>,
     parses |-> {".musicxml"}, nparts |-> -1]
\* a MIDI file, read as a score with no declared part
MidC ==
    [enc |-> "utf-8", wf |-> FALSE, ns |-> <<>>, local |-> <<>>,
     parses |-> {".mid"}, nparts |-> 0]
\* <foo>: well-formed XML that is neither MusicXML nor MIDI
Junk ==
    [enc |-> "utf-8", wf |-> TRUE, ns |-> <<>>, local |-> <<"f","o","o">>,
     parses |-> {}, nparts |-> 0]

Entry(n, d) == [name |-> n, data |-> d]

RichEntries ==
    {Entry(DocXml, XmlA), Entry(DocXml, Junk),
     Entry(DocMid, MidC), Entry(DocMid, Junk),
     Entry(AXml, XmlA), Entry(AXml, XmlB), Entry(AXml, Junk),
     Entry(BXmlUpper, XmlB), Entry(NTxt, XmlA)}

DistinctNames(es) ==
    \A i, j \in 1..Len(es) : i # j => es[i].name # es[j].name

RichArchives ==
    {Zip(es) : es \in {e \in UNION {[1..n -> RichEntries] : n \in 0..MaxEntries} :
                          DistinctNames(e)}}
    \cup {BadZip, Missing}

MergeArchives ==
    {Zip(<<Entry(DocXml, XmlA)>>),      \* two declared parts
     Zip(<<Entry(DocMid, MidC)>>),      \* a score with no declared part
     Zip(<<Entry(BXmlUpper, XmlB)>>),   \* found by the scan; no 'parts'
     Zip(<<Entry(DocMid, Junk)>>),      \* music21 cannot parse the payload
     BadZip}

\* an output file that exists before the call
OldOutput == Raw(XmlB)

\* the upload service before any request has arrived
AppIdle ==
    [pc |-> "idle", merge |-> FALSE, fault |-> "none", uploads |-> 0,
     saved |-> <<>>, outputs |-> <<>>, tmpdir |-> "none", status |-> 0,
     body |-> "", xTmpdir |-> FALSE, thread |-> "none"]

NoCall ==
    [op |-> "none", inputs |-> <<>>, overwrite |-> FALSE, fault |-> "none",
     again |-> FALSE, outBefore |-> NoFile, rc |-> 0, exc |-> "",
     processed |-> 0, built |-> FALSE, combined |-> <<>>]

Init ==
    /\ \/ \E a \in RichArchives :
              files = [p \in Paths |-> IF p = 1 THEN a ELSE Missing]
       \/ files \in [Paths -> MergeArchives]
    /\ out \in {NoFile, OldOutput}
    /\ tmpFiles = {}
    /\ last = NoCall
    /\ probe = NoBytes
    /\ verdict = "untested"
    /\ app = AppIdle

\* files = [f for f in files if f and os.path.isfile(f)]
ExistingPaths(k) ==
    SelectSeq([i \in 1..k |-> i], LAMBDA p : files[p].kind # "missing")

\* a call process_single_file(inp, out, overwrite) runs to its end
SingleCall(p, overwrite, env, again) ==
    \E r \in {process_single_file(files[p], out, overwrite, p, env)} :
        /\ out' = r.out
        /\ tmpFiles' = tmpFiles \cup r.left
        /\ last' = [op |-> "single", inputs |-> <<p>>,
                    overwrite |-> overwrite, fault |-> env, again |-> again,
                    outBefore |-> out, rc |-> r.rc, exc |-> r.exc,
                    processed |-> 0, built |-> FALSE, combined |-> <<>>]
        /\ UNCHANGED <<files, probe, verdict, app>>

\* a call merge_files(inputs, out, overwrite) runs to its end
MergeCall(inputs, overwrite, env, again) ==
    \E r \in {merge_files(inputs, out, overwrite, env)} :
        /\ out' = r.out
        /\ tmpFiles' = tmpFiles \cup r.left
        /\ last' = [op |-> "merge", inputs |-> inputs,
                    overwrite |-> overwrite, fault |-> env, again |-> again,
                    outBefore |-> out, rc |-> r.rc, exc |-> r.exc,
                    processed |-> r.processed, built |-> r.built,
                    combined |-> r.combined]
        /\ UNCHANGED <<files, probe, verdict, app>>

(***************************************************************************)
(* A behaviour is one run of the program on the files of the initial       *)
(* state, with the output present or absent beforehand, followed at most   *)
(* by one more run with the same arguments.  A call reads nothing of the   *)
(* state but the input files and whether the output exists, so the initial *)
(* states cover what a longer history could leave for the next call.       *)
(***************************************************************************)
\* rc = process_single_file(f, out, overwrite=args.overwrite, ...)
ProcessSingleFile ==
    /\ last.op = "none"
    /\ \E p \in Paths, overwrite \in BOOLEAN, env \in Faults :
           SingleCall(p, overwrite, env, FALSE)

\* rc = merge_files(files, out_path, overwrite=args.overwrite, ...), on the
\* input paths that are files
MergeFiles ==
    /\ last.op = "none"
    /\ \E k \in Paths, overwrite \in BOOLEAN, env \in Faults :
           /\ ExistingPaths(k) # <<>>
           /\ MergeCall(ExistingPaths(k), overwrite, env, FALSE)

\* the program is run a second time with the same arguments
RunAgain ==
    /\ last.op # "none"
    /\ ~last.again
    /\ \E env \in Faults :
           IF last.op = "single"
           THEN SingleCall(last.inputs[1], last.overwrite, env, TRUE)
           ELSE MergeCall(last.inputs, last.overwrite, env, TRUE)

Next == ProcessSingleFile \/ MergeFiles \/ RunAgain

Spec == Init /\ [][Next]_vars

(***************************************************************************)
(* The root-element test on its own: a byte string is drawn and tested.    *)
(***************************************************************************)
ProbeLocals ==
    {ScorePartwise, ScoreTimewise, Score,
     <<"S","C","O","R","E">>,
     <<"S","c","o","r","e","-","P","a","r","t","w","i","s","e">>,
     <<"s","c","o","r","e","-","p","a","r","t">>,
     <<"s","c","o","r","e","s">>,
     <<"p","a","r","t">>,
     <<"f","o","o">>}

\* for bytes that are not well-formed, ns and local are those of the root
\* element the broken document starts with
ProbeBytes ==
    [enc : {"utf-8", "utf-16"}, wf : BOOLEAN, ns : {<<>>, <<"u">>},
     local : ProbeLocals, parses : {{}}, nparts : {0}]

InitXml ==
    /\ files = [p \in Paths |-> Missing]
    /\ out = NoFile
    /\ tmpFiles = {}
    /\ last = NoCall
    /\ probe \in ProbeBytes
    /\ verdict = "untested"
    /\ app = AppIdle

TestProbe ==
    /\ verdict = "untested"
    /\ verdict' = IF is_musicxml_bytes(probe) THEN "true" ELSE "false"
    /\ UNCHANGED <<files, out, tmpFiles, last, probe, app>>

NextXml == TestProbe

SpecXml == InitXml /\ [][NextXml]_vars

(***************************************************************************)
(* The upload service (app.py).  One POST /convert request is followed     *)
(* from its arrival to the end of the background clean-up.  files holds    *)
(* the uploads of the request, in order: an upload whose name              *)
(* secure_filename() reduces to nothing is the one marked missing, and is  *)
(* never saved.  The scratch directory is new, so no output exists in it   *)
(* before the engine is called, and the handler always passes              *)
(* overwrite=True.                                                         *)
(***************************************************************************)
\* a response of the handler: status, body and the X-Tmpdir header
Response(status, body, xTmpdir) ==
    [status |-> status, body |-> body, xTmpdir |-> xTmpdir]

\* what the handler leaves: its response, the outputs it produced and the
\* scratch files the engine left in the system temp directory
Handled(resp, outputs, left) ==
    [resp |-> resp, outputs |-> outputs, left |-> left]

\* Flask turns an exception that escapes the handler into a 500 response
InternalServerError == Response(500, "Internal Server Error", FALSE)

\* for inp in saved: rc = process_single_file(inp, out, ...);
\*     if rc == 0 and os.path.exists(out): outputs.append(out)
\* an exception of the engine ends the loop and the handler
RECURSIVE ConvertEach(_, _, _, _, _)
ConvertEach(saved, i, env, outputs, left) ==
    IF i > Len(saved)
    THEN [exc |-> "", outputs |-> outputs, left |-> left]
    ELSE LET r == process_single_file(files[saved[i]], NoFile, TRUE,
                                      saved[i], env)
         IN  IF r.exc # ""
             THEN [exc |-> r.exc, outputs |-> outputs,
                   left |-> left \cup r.left]
             ELSE ConvertEach(saved, i + 1, env,
                              IF r.rc = 0 /\ Exists(r.out)
                              THEN Append(outputs, saved[i]) ELSE outputs,
                              left \cup r.left)

\* the body of the try block of convert(), after the uploads were saved
convert(saved, merge, env) ==
    IF saved = <<>>
    THEN Handled(Response(400, "No valid files uploaded", FALSE), <<>>, {})
    ELSE IF merge
    THEN LET r == merge_files(saved, NoFile, TRUE, env)
         IN  IF r.exc # ""
             THEN Handled(InternalServerError, <<>>, r.left)
             ELSE IF r.rc # 0
             THEN Handled(Response(500, "Merge failed", FALSE), <<>>, r.left)
             ELSE Handled(Response(200, "merged.musicxml", TRUE), <<>>,
                          r.left)
    ELSE LET e == ConvertEach(saved, 1, env, <<>>, {})
         IN  IF e.exc # ""
             THEN Handled(InternalServerError, e.outputs, e.left)
             ELSE IF e.outputs = <<>>
             THEN Handled(Response(500, "No outputs generated", FALSE),
                          <<>>, e.left)
             ELSE IF Len(e.outputs) = 1
             THEN Handled(Response(200, "single.musicxml", TRUE),
                          e.outputs, e.left)
             ELSE Handled(Response(200, "outputs.zip", TRUE),
                          e.outputs, e.left)

InitApp ==
    /\ files \in [Paths -> MergeArchives \cup {Missing}]
    /\ out = NoFile
    /\ tmpFiles = {}
    /\ last = NoCall
    /\ probe = NoBytes
    /\ verdict = "untested"
    /\ app = AppIdle

\* POST /convert with the first n uploads of files: the handler runs from
\* the request to its return, or to the exception that escapes it
Convert ==
    /\ app.pc = "idle"
    /\ \E n \in 0..MaxInputs, merge \in BOOLEAN, env \in Faults :
           IF n = 0
           THEN /\ app' = [app EXCEPT !.pc = "returned", !.status = 400,
                                      !.body = "No files uploaded"]
                /\ UNCHANGED tmpFiles
           ELSE \E h \in {convert(ExistingPaths(n), merge, env)} :
                    /\ app' = [app EXCEPT !.pc = "returned",
                                          !.merge = merge,
                                          !.fault = env,
                                          !.uploads = n,
                                          !.saved = ExistingPaths(n),
                                          !.outputs = h.outputs,
                                          !.tmpdir = "exists",
                                          !.status = h.resp.status,
                                          !.body = h.resp.body,
                                          !.xTmpdir = h.resp.xTmpdir]
                    /\ tmpFiles' = tmpFiles \cup h.left
    /\ UNCHANGED <<files, out, last, probe, verdict>>

\* @app.after_request: a response that carries X-Tmpdir, for a directory
\* that exists, has a daemon thread started to remove it; a failure to
\* start the thread is swallowed
ScheduleTmpCleanup ==
    /\ app.pc = "returned"
    /\ \E started \in BOOLEAN :
           app' = [app EXCEPT !.pc = "sent",
                              !.thread = IF app.xTmpdir /\ app.tmpdir = "exists"
                                         THEN IF started THEN "started"
                                              ELSE "failed"
                                         ELSE "none"]
    /\ UNCHANGED <<files, out, tmpFiles, last, probe, verdict>>

\* _rm(path): shutil.rmtree(path), any exception swallowed
Rm ==
    /\ app.thread = "started"
    /\ \E removed \in BOOLEAN :
           app' = [app EXCEPT !.thread = "ended",
                              !.tmpdir = IF removed THEN "removed"
                                         ELSE "exists"]
    /\ UNCHANGED <<files, out, tmpFiles, last, probe, verdict>>

NextApp == Convert \/ ScheduleTmpCleanup \/ Rm

\* Flask runs the after-request hook on every response, and a started
\* thread runs
SpecApp ==
    /\ InitApp
    /\ [][NextApp]_vars
    /\ WF_vars(ScheduleTmpCleanup)
    /\ WF_vars(Rm)

(***************************************************************************)
(* The properties.                                                         *)
(***************************************************************************)
\* the archive the last process_single_file call was given
CallArchive == files[last.inputs[1]]

\* the last call found the output in place and was not told to overwrite it
ShortCircuited == Exists(last.outBefore) /\ ~last.overwrite

SingleRan ==
    /\ last.op = "single"
    /\ CallArchive.kind = "zip"
    /\ ~ShortCircuited

\* the archive has an entry doc.xml whose bytes pass the root test
ValidDocXml(z) ==
    \E i \in 1..Len(z.entries) :
        z.entries[i].name = DocXml /\ is_musicxml_bytes(z.entries[i].data)

DocXmlBytes(z) ==
    (CHOOSE e \in {z.entries[i] : i \in 1..Len(z.entries)} :
         e.name = DocXml).data

HasDocMid(z) == \E i \in 1..Len(z.entries) : z.entries[i].name = DocMid

\* positions of the entries named *.xml (any case) that pass the root test
ScanHits(z) ==
    {i \in 1..Len(z.entries) :
        /\ EndsWith(Lower(z.entries[i].name), DotXml)
        /\ is_musicxml_bytes(z.entries[i].data)}

FirstScanHit(z) ==
    z.entries[CHOOSE i \in ScanHits(z) : \A j \in ScanHits(z) : i <= j].data

\* C1: for a valid ZIP and a call that the overwrite check does not
\* short-circuit, the payload is picked in this priority: a doc.xml that passes
\* the root test is written and the call returns 0; else a doc.mid is converted
\* and the call returns 0 or 3; else the first *.xml entry in archive order
\* that passes the root test is written and the call returns 0; else the call
\* returns 4.
C1_PayloadPriority ==
    SingleRan =>
        IF ValidDocXml(CallArchive)
        THEN last.rc = 0 /\ out = Raw(DocXmlBytes(CallArchive))
        ELSE IF HasDocMid(CallArchive)
        THEN last.rc \in {0, 3}
        ELSE IF ScanHits(CallArchive) # {}
        THEN last.rc = 0 /\ out = Raw(FirstScanHit(CallArchive))
        ELSE last.rc = 4

\* C2: passthrough: when doc.xml holds valid MusicXML bytes B, a call that is
\* not short-circuited returns success and the output file holds exactly B,
\* whatever else the archive contains.
C2_Passthrough ==
    (SingleRan /\ ValidDocXml(CallArchive)) =>
        /\ last.rc = 0
        /\ out.kind = "raw"
        /\ out.bytes = DocXmlBytes(CallArchive)

\* C3 as stated: whenever the output exists and overwrite is false,
\* process_single_file returns 0 and leaves the output unchanged, for every
\* input path.
C3_ShortCircuitEveryInput ==
    (last.op = "single" /\ ShortCircuited) =>
        last.rc = 0 /\ last.exc = "" /\ out = last.outBefore

\* C3 as amended: whenever the output exists and overwrite is false,
\* process_single_file leaves the output unchanged and raises nothing; it
\* returns 0 when the input path is a file (whatever the file holds) and 2 when
\* it is not.  So a second call with overwrite false on an input file returns
\* 0 and leaves the first call's output untouched.
C3_ShortCircuit ==
    (last.op = "single" /\ ShortCircuited) =>
        /\ last.exc = ""
        /\ out = last.outBefore
        /\ last.rc = IF CallArchive.kind = "missing" THEN 2 ELSE 0

\* C3 witness: the second of two calls with overwrite false finds the MusicXML
\* that the first call extracted, returns 0 and leaves it in place.
C3_Witness ==
    /\ last.op = "single"
    /\ last.again
    /\ ~last.overwrite
    /\ last.outBefore = Raw(XmlA)
    /\ out = Raw(XmlA)
    /\ last.rc = 0

\* what parse_playscore_to_score made of input p in the last call
Resolution(p) == parse_playscore_to_score(files[p], p, last.fault)

\* the number of elements input p adds to the combined score: its declared
\* parts, one when it resolved to a score without declared parts, none when it
\* did not resolve
PartCount(p) ==
    LET r == Resolution(p)
    IN  IF r.res # "score" THEN 0
        ELSE IF r.score.hasParts /\ Len(r.score.parts) > 0
        THEN Len(r.score.parts)
        ELSE 1

\* the elements that the inputs before position i add
RECURSIVE Offset(_)
Offset(i) ==
    IF i <= 1 THEN 0 ELSE Offset(i - 1) + PartCount(last.inputs[i - 1])

\* C4: once merge_files has built the combined score, its elements are the
\* inputs' contributions, input after input: the number of elements is the sum
\* of the inputs' part counts, and the elements of the i-th input stand
\* together, behind those of all earlier inputs, as its declared parts in their
\* own order or as the one score itself; an input that did not resolve adds
\* nothing.
C4_MergeOrder ==
    (last.op = "merge" /\ last.built) =>
        /\ Len(last.combined) = Offset(Len(last.inputs) + 1)
        /\ \A i \in 1..Len(last.inputs) :
               \A k \in 1..PartCount(last.inputs[i]) :
                   last.combined[Offset(i) + k] =
                       IF Resolution(last.inputs[i]).score.hasParts
                          /\ Len(Resolution(last.inputs[i]).score.parts) > 0
                       THEN <<last.inputs[i], k>>
                       ELSE <<last.inputs[i], 0>>

\* C4 witness: A with two parts, B no ZIP, C a score without declared parts:
\* the combined score is [A.part1, A.part2, C].
C4_Witness ==
    /\ last.op = "merge"
    /\ last.built
    /\ last.inputs = <<1, 2, 3>>
    /\ files[2] = BadZip
    /\ last.combined = <<<<1, 1>>, <<1, 2>>, <<3, 0>>>>

\* C5: in a merge (not short-circuited, nothing wrong with the environment) an
\* input that fails to resolve is skipped and the later inputs are still
\* processed: the merge is not aborted, every input is processed, and the merge
\* succeeds when at least one input resolves.
C5_PartialSuccess ==
    (last.op = "merge" /\ last.fault = "none" /\ ~ShortCircuited) =>
        /\ last.exc = ""
        /\ last.processed = Len(last.inputs)
        /\ (\E i \in 1..Len(last.inputs) :
                Resolution(last.inputs[i]).res = "score") => last.rc = 0

\* C6: when no input of a merge (not short-circuited, nothing wrong with the
\* environment) yields a parsed score, merge_files returns 4 and the output
\* file is as it was.
C6_NoParsableScores ==
    (/\ last.op = "merge"
     /\ last.fault = "none"
     /\ ~ShortCircuited
     /\ \A i \in 1..Len(last.inputs) :
            Resolution(last.inputs[i]).res # "score") =>
        last.rc = 4 /\ out = last.outBefore

\* the last call came to write an extracted MusicXML payload
WroteDirectPayload ==
    /\ SingleRan
    /\ \/ ValidDocXml(CallArchive)
       \/ ~HasDocMid(CallArchive) /\ ScanHits(CallArchive) # {}

\* C7: every call of process_single_file and merge_files ends by returning a
\* result code, never by an exception; a failed write of an extracted MusicXML
\* payload is returned as WriteFailed (5).
C7_NoRawException ==
    /\ last.op # "none" => last.exc = "" /\ last.rc \in {0, 2, 3, 4, 5}
    /\ (WroteDirectPayload /\ last.fault \in {"write_early", "write_partial"})
           => last.rc = 5

\* C8: a process_single_file call that returns a failure code (2, 3, 4) leaves
\* the output path as it was, and one that returns 0 leaves an output file; an
\* archive without doc.xml, doc.mid and *.xml entries gives 4 and no output.
C8_OutputIffSuccess ==
    last.op = "single" =>
        /\ last.rc \in {2, 3, 4} => out = last.outBefore
        /\ last.rc = 0 => Exists(out)
        /\ (/\ SingleRan
            /\ \A i \in 1..Len(CallArchive.entries) :
                   /\ CallArchive.entries[i].name # DocMid
                   /\ ~EndsWith(Lower(CallArchive.entries[i].name), DotXml))
               => last.rc = 4 /\ out = last.outBefore

\* C9: after a call has ended, by a return or by an exception, no scratch file
\* that it created exists (none existed before the first call).
C9_NoScratchLeft == last.op # "none" => tmpFiles = {}

\* C10: is_musicxml_bytes answers true exactly for the byte strings that are
\* well-formed XML whose root tag, without its namespace and lower-cased, is
\* score-partwise, score-timewise or score.
C10_RootTest ==
    verdict # "untested" =>
        (verdict = "true" <=>
            (probe.wf /\ Lower(probe.local) \in MusicXmlRoots))

\* C11: every scratch directory a /convert request creates is scheduled for
\* removal on every exit path of the request: once the response of a request
\* that created a scratch directory has passed the after-request hook, and
\* the start of a thread did not fail there, the removal of the directory
\* has been scheduled (its thread is started or has ended).
C11_ScheduledOnEveryExit ==
    (app.pc = "sent" /\ app.tmpdir # "none" /\ app.thread # "failed")
        => app.thread \in {"started", "ended"}
====
